---------------------------- MODULE Spec2Model ----------------------------
(***************************************************************************)
(* Model of libcore_icu_NativeCollation.cpp: the JNI binding of the ICU    *)
(* collation engine.  The state is the heap of CollationElements objects,  *)
(* the JNI resources they take (string pins from GetStringChars, global    *)
(* references from NewGlobalRef), the engine iterators UCollationElements  *)
(* and, per calling thread, the position inside the native method it is    *)
(* executing together with that method's locals.                           *)
(*                                                                         *)
(* ICU and JNI are the environment of this file: each call into them is    *)
(* modelled at its call site by the outcomes its contract allows, chosen   *)
(* nondeterministically.                                                   *)
(***************************************************************************)
EXTENDS Integers, Sequences, FiniteSets, TLC

VARIABLES pc, loc, ret, objs, pins, grefs, eng, hist

vars == <<pc, loc, ret, objs, pins, grefs, eng, hist>>

(***************************************************************************)
(* Bounds of the model.                                                    *)
(***************************************************************************)
\* CollationElements objects ever allocated (new CollationElements).
MaxObjs == 2
\* Pins ever taken by CollationElements::start (GetStringChars, line 45).
MaxPins == 3
\* Calls of closeElements on one address.
MaxCloseCalls == 2

Threads == {1, 2}

\* The Java strings callers pass.  "NULL" is the null jstring.
Strings == {"a", "b"}
NULLSTR == "NULL"

\* UErrorCode classes: U_ZERO_ERROR, a warning (< 0), a failure (> 0) raised
\* by the engine, and the U_ILLEGAL_ARGUMENT_ERROR start returns at line 62.
U_ZERO_ERROR == "U_ZERO_ERROR"
U_WARNING == "U_WARNING"
U_ENGINE_ERROR == "U_ENGINE_ERROR"
U_ILLEGAL_ARGUMENT_ERROR == "U_ILLEGAL_ARGUMENT_ERROR"

U_FAILURE(status) == status \in {U_ENGINE_ERROR, U_ILLEGAL_ARGUMENT_ERROR}
U_SUCCESS(status) == ~U_FAILURE(status)

NoException == "none"

Idle == [op |-> "none"]
NoRet == [op |-> "none"]

AllIdle == \A t \in Threads : pc[t] = "idle"

\* What the callers know of the calls made so far: whether a call was ever
\* started while another one was in progress (overlapped), and the results a
\* caller has kept (kept).
NoHistory == [overlapped |-> FALSE, kept |-> <<>>]
Overlaps(t) == \E u \in Threads \ {t} : pc[u] # "idle"

\* A call starts: the results of earlier calls are no longer the latest.
Enter(t, label, locals) ==
    /\ pc[t] = "idle"
    /\ pc' = [pc EXCEPT ![t] = label]
    /\ loc' = [loc EXCEPT ![t] = locals]
    /\ ret' = [u \in Threads |-> NoRet]
    /\ hist' = [hist EXCEPT !.overlapped = @ \/ Overlaps(t)]

Goto(t, label) == pc' = [pc EXCEPT ![t] = label] /\ UNCHANGED hist

\* A call returns value val to Java with exception exc pending (or none).
Return(t, val, exc) ==
    /\ pc' = [pc EXCEPT ![t] = "idle"]
    /\ ret' = [ret EXCEPT ![t] = [op |-> loc[t].op, h |-> loc[t].h,
                                  src |-> loc[t].src, status |-> loc[t].status,
                                  val |-> val, exc |-> exc]]
    /\ loc' = [loc EXCEPT ![t] = Idle]
    /\ UNCHANGED hist

(***************************************************************************)
(* Helpers of the binding that live outside this file.                     *)
(***************************************************************************)
\* ScopedStringChars source(env, javaSource): get() is NULL (with an exception
\* pending: NullPointerException for a null string, OutOfMemoryError when the
\* characters cannot be obtained) or the characters of the string.
ScopedStringChars(isNull) ==
    IF isNull THEN {"NullPointerException"}
    ELSE {NoException, "OutOfMemoryError"}

\* maybeThrowIcuException(env, function, status): throws for a failure status
\* only; a warning or U_ZERO_ERROR leaves no exception pending.
maybeThrowIcuException(status) ==
    IF U_SUCCESS(status) THEN NoException
    ELSE IF status = U_ILLEGAL_ARGUMENT_ERROR THEN "IllegalArgumentException"
    ELSE "RuntimeException"

(***************************************************************************)
(* class CollationElements                                                 *)
(***************************************************************************)
\* The constructor: mElements(NULL), mString(NULL), mChars(NULL).  0 is NULL.
\* st is the object's place in its life: "owned" by the UniquePtr of
\* getCollationElementIterator, "live" once its address was returned to the
\* caller, "deleted" after delete.
CollationElements ==
    [st |-> "owned", mElements |-> 0, mString |-> 0, mChars |-> 0,
     closeCalls |-> 0, deletes |-> 0]

\* The object a thread's call works on (this / elements / ce.get()).
This(t) == objs[loc[t].h]

HeldPinsOf(o) == {p \in 1..Len(pins) : pins[p].owner = o /\ pins[p].rel = 0}
HeldRefsOf(o) == {g \in 1..Len(grefs) : grefs[g].owner = o /\ grefs[g].del = 0}

\* release, lines 66-68: if (mElements != NULL && closeCollator)
\*     ucol_closeElements(mElements);
release_close(t) ==
    /\ pc[t] = "r_close"
    /\ IF This(t).mElements # 0 /\ loc[t].closeCollator
       THEN eng' = [eng EXCEPT ![This(t).mElements].closed = @ + 1]
       ELSE UNCHANGED eng
    /\ Goto(t, "r_unpin")
    /\ UNCHANGED <<loc, ret, objs, pins, grefs>>

\* A release that forgets the characters without ReleaseStringChars (line 71
\* left out).
release_unpin_notReleased(t) ==
    /\ pc[t] = "r_unpin"
    /\ IF This(t).mChars # 0
       THEN Goto(t, "r_unref")
       ELSE Goto(t, loc[t].rcont)
    /\ UNCHANGED <<loc, ret, objs, pins, grefs, eng>>

\* A release that unpins only when it also closes (the test of line 70
\* written as mChars != NULL && closeCollator).
release_unpin_onlyOnClose(t) ==
    /\ pc[t] = "r_unpin"
    /\ IF This(t).mChars # 0 /\ loc[t].closeCollator
       THEN /\ pins' = [pins EXCEPT ![This(t).mChars].rel = @ + 1]
            /\ Goto(t, "r_unref")
       ELSE /\ UNCHANGED pins
            /\ Goto(t, loc[t].rcont)
    /\ UNCHANGED <<loc, ret, objs, grefs, eng>>

\* release, lines 70-71: if (mChars != NULL) env->ReleaseStringChars(mString, mChars);
release_unpin(t) ==
    /\ pc[t] = "r_unpin"
    /\ IF This(t).mChars # 0
       THEN /\ pins' = [pins EXCEPT ![This(t).mChars].rel = @ + 1]
            /\ Goto(t, "r_unref")
       ELSE /\ UNCHANGED pins
            /\ Goto(t, loc[t].rcont)
    /\ UNCHANGED <<loc, ret, objs, grefs, eng>>

\* release, line 72: env->DeleteGlobalRef(mString);
release_unref(t) ==
    /\ pc[t] = "r_unref"
    /\ IF This(t).mString # 0
       THEN grefs' = [grefs EXCEPT ![This(t).mString].del = @ + 1]
       ELSE UNCHANGED grefs
    /\ Goto(t, "r_null")
    /\ UNCHANGED <<loc, ret, objs, pins, eng>>

\* A release that forgets mString = NULL (line 74 left out).
release_null_charsOnly(t) ==
    /\ pc[t] = "r_null"
    /\ objs' = [objs EXCEPT ![loc[t].h].mChars = 0]
    /\ Goto(t, loc[t].rcont)
    /\ UNCHANGED <<loc, ret, pins, grefs, eng>>

\* release, lines 73-74: mChars = NULL; mString = NULL;
release_null(t) ==
    /\ pc[t] = "r_null"
    /\ objs' = [objs EXCEPT ![loc[t].h].mChars = 0, ![loc[t].h].mString = 0]
    /\ Goto(t, loc[t].rcont)
    /\ UNCHANGED <<loc, ret, pins, grefs, eng>>

release(t) ==
    \/ release_close(t)
    \/ release_unpin(t)
    \/ release_unref(t)
    \/ release_null(t)

\* A start that does not release first (line 44 left out).
start_release_skipped(t) ==
    /\ pc[t] = "s_release"
    /\ Goto(t, "s_pin")
    /\ UNCHANGED <<loc, ret, objs, pins, grefs, eng>>

\* start, line 44: release(env, false /* don't close the collator */);
start_release(t) ==
    /\ pc[t] = "s_release"
    /\ loc' = [loc EXCEPT ![t].closeCollator = FALSE, ![t].rcont = "s_pin"]
    /\ Goto(t, "r_close")
    /\ UNCHANGED <<ret, objs, pins, grefs, eng>>

\* start, lines 45-46 and 62: mChars = env->GetStringChars(string, NULL);
\* GetStringChars pins the characters or returns NULL; on NULL start returns
\* U_ILLEGAL_ARGUMENT_ERROR.
start_pin(t) ==
    /\ pc[t] = "s_pin"
    /\ \/ /\ Len(pins) < MaxPins
          /\ pins' = Append(pins, [str |-> loc[t].src, owner |-> loc[t].h, rel |-> 0])
          /\ objs' = [objs EXCEPT ![loc[t].h].mChars = Len(pins) + 1]
          /\ Goto(t, "s_gref")
          /\ UNCHANGED loc
       \/ /\ objs' = [objs EXCEPT ![loc[t].h].mChars = 0]
          /\ loc' = [loc EXCEPT ![t].status = U_ILLEGAL_ARGUMENT_ERROR]
          /\ Goto(t, loc[t].scont)
          /\ UNCHANGED pins
    /\ UNCHANGED <<ret, grefs, eng>>

\* start, lines 47-48: mString = static_cast<jstring>(env->NewGlobalRef(string));
\* (string is not null here, so NewGlobalRef yields a reference.)
start_gref(t) ==
    /\ pc[t] = "s_gref"
    /\ grefs' = Append(grefs, [str |-> loc[t].src, owner |-> loc[t].h, del |-> 0])
    /\ objs' = [objs EXCEPT ![loc[t].h].mString = Len(grefs) + 1]
    /\ Goto(t, "s_engine")
    /\ UNCHANGED <<loc, ret, pins, eng>>

\* ucol_openElements(collator, mChars, size, &status): a new engine iterator
\* over the buffer (status zero or a warning), or NULL with a failure status;
\* always a failure without a collator.
ucol_openElements(collator) ==
    IF collator = "NULL" THEN {U_ENGINE_ERROR}
    ELSE {U_ZERO_ERROR, U_WARNING, U_ENGINE_ERROR}

\* A start whose else branch (line 56) does not call ucol_setText: an engine
\* iterator that exists is left on the text it had.
start_engine_withoutSetText(t) ==
    /\ pc[t] = "s_engine"
    /\ IF This(t).mElements = 0
       THEN \E status \in ucol_openElements(loc[t].collator) :
              /\ loc' = [loc EXCEPT ![t].status = status]
              /\ IF U_SUCCESS(status)
                 THEN /\ eng' = Append(eng, [text |-> This(t).mChars,
                                             owner |-> loc[t].h, closed |-> 0])
                      /\ objs' = [objs EXCEPT ![loc[t].h].mElements = Len(eng) + 1]
                 ELSE UNCHANGED <<eng, objs>>
       ELSE /\ loc' = [loc EXCEPT ![t].status = U_ZERO_ERROR]
            /\ UNCHANGED <<eng, objs>>
    /\ Goto(t, loc[t].scont)
    /\ UNCHANGED <<ret, pins, grefs>>

\* start, lines 50-59: open a new engine iterator or ucol_setText the one held.
\* A failing ucol_setText leaves the engine on its old text or on the new one.
start_engine(t) ==
    /\ pc[t] = "s_engine"
    /\ IF This(t).mElements = 0
       THEN \E status \in ucol_openElements(loc[t].collator) :
              /\ loc' = [loc EXCEPT ![t].status = status]
              /\ IF U_SUCCESS(status)
                 THEN /\ eng' = Append(eng, [text |-> This(t).mChars,
                                             owner |-> loc[t].h, closed |-> 0])
                      /\ objs' = [objs EXCEPT ![loc[t].h].mElements = Len(eng) + 1]
                 ELSE UNCHANGED <<eng, objs>>
       ELSE /\ \E status \in {U_ZERO_ERROR, U_WARNING, U_ENGINE_ERROR} :
                 /\ loc' = [loc EXCEPT ![t].status = status]
                 /\ \/ eng' = [eng EXCEPT ![This(t).mElements].text = This(t).mChars]
                    \/ U_FAILURE(status) /\ UNCHANGED eng
            /\ UNCHANGED objs
    /\ Goto(t, loc[t].scont)
    /\ UNCHANGED <<ret, pins, grefs>>

start(t) ==
    \/ start_release(t)
    \/ start_pin(t)
    \/ start_gref(t)
    \/ start_engine(t)

(***************************************************************************)
(* The native methods of the iterator.                                     *)
(***************************************************************************)
Locals(op, h, src, collator, scont) ==
    [op |-> op, h |-> h, src |-> src, collator |-> collator,
     status |-> U_ZERO_ERROR, scont |-> scont, rcont |-> "none",
     closeCollator |-> FALSE]

LiveHandles == {o \in 1..Len(objs) : objs[o].st = "live"}

\* getCollationElementIterator, lines 121-125: the call and its
\* ScopedStringChars source(env, javaSource).
NativeCollation_getCollationElementIterator(t) ==
    /\ Len(objs) < MaxObjs
    /\ Len(pins) < MaxPins
    /\ \E javaSource \in Strings \cup {NULLSTR} :
         Enter(t, "gcei_scoped", Locals("getCollationElementIterator", 0,
                                        javaSource, "collator", "gcei_after"))
    /\ UNCHANGED <<objs, pins, grefs, eng>>

getCollationElementIterator_scoped(t) ==
    /\ pc[t] = "gcei_scoped"
    /\ \E exc \in ScopedStringChars(loc[t].src = NULLSTR) :
         IF exc # NoException
         THEN /\ Return(t, -1, exc)
              /\ UNCHANGED objs
         ELSE \* line 127: UniquePtr<CollationElements> ce(new CollationElements);
              /\ objs' = Append(objs, CollationElements)
              /\ loc' = [loc EXCEPT ![t].h = Len(objs) + 1]
              /\ Goto(t, "s_release")
              /\ UNCHANGED ret
    /\ UNCHANGED <<pins, grefs, eng>>

\* A getCollationElementIterator that returns the address whatever the status
\* (the test of line 130 left out).
getCollationElementIterator_after_unchecked(t) ==
    /\ pc[t] = "gcei_after"
    /\ objs' = [objs EXCEPT ![loc[t].h].st = "live"]
    /\ Return(t, loc[t].h, maybeThrowIcuException(loc[t].status))
    /\ UNCHANGED <<pins, grefs, eng>>

\* getCollationElementIterator, lines 129-134: maybeThrowIcuException, then the
\* address is returned (ce.release()) for U_ZERO_ERROR; otherwise 0 is returned
\* and the UniquePtr deletes the object (CollationElements has no destructor).
getCollationElementIterator_after(t) ==
    /\ pc[t] = "gcei_after"
    /\ IF loc[t].status = U_ZERO_ERROR
       THEN /\ objs' = [objs EXCEPT ![loc[t].h].st = "live"]
            /\ Return(t, loc[t].h, maybeThrowIcuException(loc[t].status))
       ELSE /\ objs' = [objs EXCEPT ![loc[t].h].st = "deleted",
                                    ![loc[t].h].deletes = @ + 1]
            /\ Return(t, 0, maybeThrowIcuException(loc[t].status))
    /\ UNCHANGED <<pins, grefs, eng>>

\* setText, lines 237-241.
NativeCollation_setText(t) ==
    /\ Len(pins) < MaxPins
    /\ \E address \in LiveHandles, javaSource \in Strings \cup {NULLSTR} :
         Enter(t, "st_scoped", Locals("setText", address, javaSource,
                                      "NULL", "st_after"))
    /\ UNCHANGED <<objs, pins, grefs, eng>>

setText_scoped(t) ==
    /\ pc[t] = "st_scoped"
    /\ \E exc \in ScopedStringChars(loc[t].src = NULLSTR) :
         IF exc # NoException
         THEN Return(t, "void", exc)
         ELSE Goto(t, "s_release") /\ UNCHANGED <<loc, ret>>
    /\ UNCHANGED <<objs, pins, grefs, eng>>

\* setText, lines 242-243.
setText_after(t) ==
    /\ pc[t] = "st_after"
    /\ Return(t, "void", maybeThrowIcuException(loc[t].status))
    /\ UNCHANGED <<objs, pins, grefs, eng>>

\* closeElements, lines 96-98.  Closing an address a second time reads an
\* object that was deleted: its memory still holds what release left there, or
\* has been cleared for reuse.
NativeCollation_closeElements(t) ==
    /\ \E address \in 1..Len(objs) :
         /\ objs[address].st = "live" \/
              (objs[address].st = "deleted" /\ objs[address].closeCalls >= 1)
         /\ objs[address].closeCalls < MaxCloseCalls
         /\ Enter(t, "r_close",
                  [Locals("closeElements", address, NULLSTR, "NULL", "none")
                     EXCEPT !.closeCollator = TRUE, !.rcont = "ce_delete"])
         /\ \E stale \in IF objs[address].st = "deleted"
                         THEN {objs[address].mElements, 0}
                         ELSE {objs[address].mElements} :
              objs' = [objs EXCEPT ![address].closeCalls = @ + 1,
                                   ![address].mElements = stale]
    /\ UNCHANGED <<pins, grefs, eng>>

\* closeElements, line 99: delete elements;
closeElements_delete(t) ==
    /\ pc[t] = "ce_delete"
    /\ objs' = [objs EXCEPT ![loc[t].h].st = "deleted",
                            ![loc[t].h].deletes = @ + 1]
    /\ Return(t, "void", NoException)
    /\ UNCHANGED <<pins, grefs, eng>>

\* What the engine iterator of a live handle reads: the buffer it was given,
\* which is valid only while its pin is held.
EngineRead(o) ==
    IF objs[o].mElements = 0 THEN "null"
    ELSE IF pins[eng[objs[o].mElements].text].rel = 0 THEN "pinned"
    ELSE "unpinned"

\* One engine call on the iterator behind address, whose status (where the
\* call has one) goes to maybeThrowIcuException; the value returned depends on
\* the buffer the engine iterator reads.
EngineCall(t, op, address, status) ==
    /\ pc[t] = "idle"
    /\ ret' = [u \in Threads |->
                IF u = t
                THEN [op |-> op, h |-> address, src |-> NULLSTR,
                      status |-> status, val |-> EngineRead(address),
                      exc |-> maybeThrowIcuException(status)]
                ELSE NoRet]
    /\ hist' = [hist EXCEPT !.overlapped = @ \/ Overlaps(t)]
    /\ UNCHANGED <<pc, loc, objs, pins, grefs, eng>>

\* next, lines 176-181: ucol_next(toCollationElements(address)->get(), &status).
NativeCollation_next(t) ==
    \E address \in LiveHandles, status \in {U_ZERO_ERROR, U_ENGINE_ERROR} :
        EngineCall(t, "next", address, status)

\* previous, lines 207-212.
NativeCollation_previous(t) ==
    \E address \in LiveHandles, status \in {U_ZERO_ERROR, U_ENGINE_ERROR} :
        EngineCall(t, "previous", address, status)

\* setOffset, lines 231-235.
NativeCollation_setOffset(t) ==
    \E address \in LiveHandles, status \in {U_ZERO_ERROR, U_ENGINE_ERROR} :
        EngineCall(t, "setOffset", address, status)

\* A reset that goes back to the start of the text by unpinning it (a release
\* of the characters in place of ucol_reset).
NativeCollation_reset_unpinning(t) ==
    /\ pc[t] = "idle"
    /\ \E address \in LiveHandles :
         /\ objs[address].mChars # 0
         /\ pins' = [pins EXCEPT ![objs[address].mChars].rel = @ + 1]
         /\ ret' = [u \in Threads |->
                     IF u = t
                     THEN [op |-> "reset", h |-> address, src |-> NULLSTR,
                           status |-> U_ZERO_ERROR, val |-> EngineRead(address),
                           exc |-> NoException]
                     ELSE NoRet]
    /\ UNCHANGED <<pc, loc, objs, grefs, eng, hist>>

\* reset, lines 214-216: ucol_reset has no status.
NativeCollation_reset(t) ==
    \E address \in LiveHandles :
        EngineCall(t, "reset", address, U_ZERO_ERROR)

\* getOffset, lines 141-143.
NativeCollation_getOffset(t) ==
    \E address \in LiveHandles :
        EngineCall(t, "getOffset", address, U_ZERO_ERROR)

\* getMaxExpansion, lines 137-139.
NativeCollation_getMaxExpansion(t) ==
    \E address \in LiveHandles :
        EngineCall(t, "getMaxExpansion", address, U_ZERO_ERROR)

(***************************************************************************)
(* The iterator's life under serialized calls: a call starts only after   *)
(* the call before it has returned.                                        *)
(***************************************************************************)
Init ==
    /\ pc = [t \in Threads |-> "idle"]
    /\ loc = [t \in Threads |-> Idle]
    /\ ret = [t \in Threads |-> NoRet]
    /\ objs = <<>>
    /\ pins = <<>>
    /\ grefs = <<>>
    /\ eng = <<>>
    /\ hist = NoHistory

Call(t) ==
    \/ NativeCollation_getCollationElementIterator(t)
    \/ NativeCollation_setText(t)
    \/ NativeCollation_closeElements(t)
    \/ NativeCollation_next(t)
    \/ NativeCollation_previous(t)
    \/ NativeCollation_setOffset(t)
    \/ NativeCollation_reset(t)
    \/ NativeCollation_getOffset(t)
    \/ NativeCollation_getMaxExpansion(t)

Step(t) ==
    \/ getCollationElementIterator_scoped(t)
    \/ getCollationElementIterator_after(t)
    \/ setText_scoped(t)
    \/ setText_after(t)
    \/ closeElements_delete(t)
    \/ start(t)
    \/ release(t)

\* Serialized calls do not depend on which thread makes them: one thread makes
\* every call, each after the one before has returned (Enter needs it idle).
Caller == CHOOSE t \in Threads : TRUE

Next == Call(Caller) \/ Step(Caller)

Spec == Init /\ [][Next]_vars

\* Two threads that share one iterator: one of them creates it, and both call
\* setText and closeElements on its handle without synchronization, so the
\* steps of their calls interleave.  Which string is bound makes no difference
\* to the pins, so all calls bind the same one, and the handle is closed once.
SharedString == CHOOSE s \in Strings : TRUE

CallConcurrent(t) ==
    \/ /\ NativeCollation_getCollationElementIterator(t)
       /\ objs = <<>>
       /\ loc'[t].src = SharedString
    \/ NativeCollation_setText(t) /\ loc'[t].src = SharedString
    \/ NativeCollation_closeElements(t) /\ This(t)'.closeCalls = 1

NextConcurrent == \E t \in Threads : CallConcurrent(t) \/ Step(t)

SpecConcurrent == Init /\ [][NextConcurrent]_vars

(***************************************************************************)
(* Claims about the iterator's pins, checked under Spec.                   *)
(***************************************************************************)
Objects == 1..Len(objs)
PinsOf(o) == {p \in 1..Len(pins) : pins[p].owner = o}
RefsOf(o) == {g \in 1..Len(grefs) : grefs[g].owner = o}
EnginesOf(o) == {e \in 1..Len(eng) : eng[e].owner = o}
Returned(t, op) == pc[t] = "idle" /\ ret[t].op = op

\* C1: at no point of any sequence of start/setText calls does one iterator
\* own two pins: the pin it held is released before the new one is acquired.
C1_AtMostOnePinHeld ==
    \A o \in Objects : Cardinality(HeldPinsOf(o)) <= 1

\* C1's case: inside setText, start has just pinned the new string of an
\* iterator whose previous pin it released.
C1_Witness ==
    \E t \in Threads :
        /\ pc[t] = "s_gref"
        /\ loc[t].op = "setText"
        /\ \E p \in PinsOf(loc[t].h) : pins[p].rel = 1
        /\ Cardinality(HeldPinsOf(loc[t].h)) = 1

\* C2: when pinning fails in setText on a bound iterator, the iterator still
\* holds its previous pin and its engine iterator reads that pinned buffer.
C2_PinFailureKeepsPreviousState ==
    \A t \in Threads :
        (Returned(t, "setText") /\ ret[t].status = U_ILLEGAL_ARGUMENT_ERROR) =>
            LET o == objs[ret[t].h] IN
            /\ o.mChars # 0
            /\ pins[o.mChars].rel = 0
            /\ eng[o.mElements].text = o.mChars

\* C3: between calls every live handle holds exactly one pin and its engine
\* iterator reads the buffer of that pin.
C3_LiveHandleHoldsItsOnePin ==
    AllIdle =>
        \A o \in LiveHandles :
            /\ Cardinality(HeldPinsOf(o)) = 1
            /\ objs[o].mChars \in HeldPinsOf(o)
            /\ objs[o].mElements # 0
            /\ eng[objs[o].mElements].text = objs[o].mChars

\* An iterator whose closeElements call, the only one made on it, has returned.
ClosedOnce(o) == objs[o].st = "deleted" /\ objs[o].closeCalls = 1

\* C4: once an iterator that was created, rebound and closed once is gone,
\* each pin and each global reference it took has been released exactly once,
\* its engine iterator closed exactly once, and it holds neither pin nor
\* reference.
C4_ClosedOnceReleasesEachOnce ==
    \A o \in Objects :
        ClosedOnce(o) =>
            /\ \A p \in PinsOf(o) : pins[p].rel = 1
            /\ \A g \in RefsOf(o) : grefs[g].del = 1
            /\ \A e \in EnginesOf(o) : eng[e].closed = 1
            /\ Cardinality(EnginesOf(o)) = 1
            /\ objs[o].deletes = 1
            /\ objs[o].mChars = 0 /\ objs[o].mString = 0

\* C4's case: a closed iterator that had been rebound at least once.
C4_Witness ==
    \E o \in Objects :
        /\ ClosedOnce(o)
        /\ Cardinality(PinsOf(o)) >= 2
        /\ Cardinality(RefsOf(o)) >= 2

\* C5: closing an iterator a second time releases nothing further: neither its
\* engine iterator is closed nor a pin or reference released a second time.
C5_SecondCloseReleasesNothing ==
    \A o \in Objects :
        objs[o].closeCalls >= 2 =>
            /\ \A e \in EnginesOf(o) : eng[e].closed <= 1
            /\ \A p \in PinsOf(o) : pins[p].rel <= 1
            /\ \A g \in RefsOf(o) : grefs[g].del <= 1

\* C6: after a successful setText the iterator holds no pin and no global
\* reference on any string but the new one, and its engine iterator reads the
\* new string's pinned buffer (so next/previous read pinned memory).
C6_RebindDropsFirstString ==
    \A t \in Threads :
        (Returned(t, "setText") /\ ret[t].exc = NoException) =>
            LET h == ret[t].h
                o == objs[ret[t].h] IN
            /\ \A p \in HeldPinsOf(h) : pins[p].str = ret[t].src
            /\ \A g \in HeldRefsOf(h) : grefs[g].str = ret[t].src
            /\ o.mChars \in HeldPinsOf(h)
            /\ o.mString \in HeldRefsOf(h)
            /\ eng[o.mElements].text = o.mChars
            /\ EngineRead(h) = "pinned"

\* C6's case: the second successful start bound a different string.
C6_Witness ==
    \E t \in Threads :
        /\ Returned(t, "setText")
        /\ ret[t].exc = NoException
        /\ \E p \in PinsOf(ret[t].h) : pins[p].str # ret[t].src /\ pins[p].rel = 1

\* C9: getCollationElementIterator and setText either complete the bind (a
\* handle of a live iterator with an engine iterator and exactly one pin) or
\* leave a failure reported to the caller.
C9_BindCompletesOrFailureReported ==
    \A t \in Threads :
        /\ Returned(t, "getCollationElementIterator") =>
              \/ ret[t].exc # NoException
              \/ /\ ret[t].val \in LiveHandles
                 /\ objs[ret[t].val].mElements # 0
                 /\ Cardinality(HeldPinsOf(ret[t].val)) = 1
        /\ Returned(t, "setText") =>
              \/ ret[t].exc # NoException
              \/ /\ objs[ret[t].h].mChars \in HeldPinsOf(ret[t].h)
                 /\ eng[objs[ret[t].h].mElements].text = objs[ret[t].h].mChars

OneCallOps ==
    {"reset", "next", "previous", "getOffset", "setOffset", "getMaxExpansion"}
BindingOps == {"getCollationElementIterator", "setText", "closeElements"}
Resources == <<objs, pins, grefs, eng>>

\* C11: reset, next, previous, getOffset, setOffset and getMaxExpansion leave
\* every iterator's pin, global reference and engine iterator as they were;
\* a step that changes any of them belongs to getCollationElementIterator,
\* setText or closeElements.
C11_OneCallMethodsKeepResources ==
    [][/\ (\E t \in Threads : ret'[t].op \in OneCallOps /\ ret' # ret)
            => Resources' = Resources
       /\ (Resources' # Resources)
            => \E t \in Threads :
                  \/ pc[t] # "idle" /\ loc[t].op \in BindingOps
                  \/ pc'[t] # "idle" /\ loc'[t].op \in BindingOps]_vars

\* C11's case: reset has returned on a handle that holds its pin and reference.
C11_Witness ==
    \E t \in Threads :
        /\ Returned(t, "reset")
        /\ objs[ret[t].h].mChars \in HeldPinsOf(ret[t].h)
        /\ objs[ret[t].h].mString \in HeldRefsOf(ret[t].h)
        /\ objs[ret[t].h].mElements # 0

\* C12: an object has at most one engine iterator, created with a collator;
\* start inside setText always finds the engine iterator of its object and so
\* never takes the branch that creates one, and every handle returned to the
\* caller keeps that one engine iterator.
C12_EngineCreatedOnce ==
    /\ \A o \in Objects : Cardinality(EnginesOf(o)) <= 1
    /\ \A o \in LiveHandles : objs[o].mElements \in EnginesOf(o)
    /\ \A t \in Threads :
         pc[t] = "s_engine" =>
            /\ This(t).mElements = 0 =>
                  (loc[t].op = "getCollationElementIterator"
                      /\ loc[t].collator # "NULL")
            /\ loc[t].op = "setText" => This(t).mElements \in EnginesOf(loc[t].h)

\* C12's case: setText has repositioned the engine iterator its object got
\* when it was created.
C12_Witness ==
    \E t \in Threads :
        /\ pc[t] = "st_after"
        /\ loc[t].status = U_ZERO_ERROR
        /\ Cardinality(PinsOf(loc[t].h)) >= 2
        /\ EnginesOf(loc[t].h) = {This(t).mElements}
        /\ eng[This(t).mElements].text = This(t).mChars

\* C15: a buffer is unpinned only after ucol_closeElements was called on the
\* engine iterator attached to it: an engine iterator that was not closed
\* reads a buffer whose pin is held.
C15_UnpinOnlyAfterCloseElements ==
    \A e \in 1..Len(eng) : eng[e].closed = 0 => pins[eng[e].text].rel = 0

\* C17: when getCollationElementIterator returns no handle, the object it
\* discarded holds no pin, no global reference and no open engine iterator.
C17_NoHandleNothingHeld ==
    \A t \in Threads :
        (Returned(t, "getCollationElementIterator") /\ ret[t].val \notin LiveHandles) =>
            \A o \in Objects :
                objs[o].st = "deleted" /\ objs[o].closeCalls = 0 =>
                    /\ HeldPinsOf(o) = {}
                    /\ HeldRefsOf(o) = {}
                    /\ \A e \in EnginesOf(o) : eng[e].closed >= 1

\* The calls on object o are at an operation boundary: no thread is inside
\* start or release on it.
AtBoundary(o) ==
    \A t \in Threads :
        (pc[t] # "idle" /\ loc[t].h = o) =>
            pc[t] \in {"s_release", "s_pin", "gcei_after", "st_after", "ce_delete"}

\* C19: at every operation boundary of a CollationElements object mChars is
\* NULL exactly when mString is, and the pin and the reference are on the same
\* string.
C19_CharsIffString ==
    \A o \in Objects :
        AtBoundary(o) =>
            /\ (objs[o].mChars # 0) <=> (objs[o].mString # 0)
            /\ objs[o].mChars # 0 =>
                  pins[objs[o].mChars].str = grefs[objs[o].mString].str

\* C19's case: after a rebind, an object with both its pin and its reference.
C19_Witness ==
    \E o \in LiveHandles :
        /\ AllIdle
        /\ Cardinality(PinsOf(o)) >= 2
        /\ objs[o].mChars \in HeldPinsOf(o)
        /\ objs[o].mString \in HeldRefsOf(o)

\* Pin p was overwritten without being released: it is held, and its owner's
\* mChars no longer names it.
Overwritten(p) == pins[p].rel = 0 /\ objs[pins[p].owner].mChars # p

\* C13: as long as no call has begun while another was running, no pin is
\* released twice and none is overwritten without being released; both happen
\* only in executions where two threads' calls overlap.
C13_SerializedCallsReleaseOnce ==
    (\E p \in 1..Len(pins) : pins[p].rel >= 2 \/ Overwritten(p)) => hist.overlapped

\* C13's case: two threads inside setText and setText, or setText and
\* closeElements, on the same handle, and one pin of it released twice.
C13_Witness ==
    \E t \in Threads, u \in Threads :
        /\ t # u
        /\ pc[t] # "idle" /\ pc[u] # "idle"
        /\ loc[t].op = "setText"
        /\ loc[u].op \in {"setText", "closeElements"}
        /\ loc[t].h = loc[u].h
        /\ \E p \in PinsOf(loc[t].h) : pins[p].rel >= 2

(***************************************************************************)
(* getSortKey and compare.  Here a Java string is its characters (or the   *)
(* null string).  The collator is modelled by what its contract promises:  *)
(* a character has one weight, 0 is an ignorable character without weight, *)
(* the sort key of a string is its weights followed by a 0 byte, and       *)
(* ucol_strcoll orders two strings as their weights order them.            *)
(***************************************************************************)
\* Longest source string of getSortKey.
MaxSrcLen == 130
\* Longest string of compare.
MaxCmpLen == 2

\* uint8_t byteArray[128];
sizeof_byteArray == 128

\* What a byte that was never written holds: no byte value.
Uninit == 255 + 1
\* What a read past the end of a buffer yields.
Overread == 255 + 2

JavaString(chars) == [null |-> FALSE, chars |-> chars]
JavaNull == [null |-> TRUE, chars |-> <<>>]

\* Every short string over two characters with a weight and an ignorable one.
CompareSources ==
    {JavaString(c) : c \in UNION {[1..n -> 0..2] : n \in 0..MaxCmpLen}}
        \cup {JavaNull}

\* Strings without and with ignorable characters, of every length, and the
\* short strings.
SortKeySources ==
    {JavaString([i \in 1..n |-> 1 + (i % 3)]) : n \in 0..MaxSrcLen}
        \cup {JavaString([i \in 1..n |-> i % 2]) : n \in 0..MaxSrcLen}
        \cup CompareSources

Min(a, b) == IF a < b THEN a ELSE b

IsWeight(c) == c # 0
Weights(chars) == SelectSeq(chars, IsWeight)
SortKeyBytes(chars) == Append(Weights(chars), 0)

\* ucol_getSortKey(collator, source, sourceLength, result, resultLength):
\* returns the size the whole key needs and writes as much of the key as
\* resultLength allows into result; on an internal error it returns 0.
ucol_getSortKey(chars, result, resultLength, ok) ==
    IF ~ok THEN [size |-> 0, buf |-> result]
    ELSE LET key == SortKeyBytes(chars)
             n == Min(Len(key), resultLength) IN
         [size |-> Len(key),
          buf |-> [i \in 1..Len(result) |-> IF i <= n THEN key[i] ELSE result[i]]]

\* new uint8_t[n] and an uninitialised array of n bytes.
NewBytes(n) == [i \in 1..n |-> Uninit]

\* getSortKey, lines 151-152.
NativeCollation_getSortKey(t) ==
    /\ \E javaSource \in SortKeySources :
         Enter(t, "gsk_scoped",
               [op |-> "getSortKey", src |-> javaSource, used |-> <<>>,
                byteArraySize |-> 0, capacity |-> 0, heap |-> FALSE,
                zero |-> FALSE])
    /\ UNCHANGED <<objs, pins, grefs, eng>>

ReturnSortKey(t, isNull, bytes, exc) ==
    /\ pc' = [pc EXCEPT ![t] = "idle"]
    /\ ret' = [ret EXCEPT ![t] = [op |-> "getSortKey", src |-> loc[t].src,
                                  isNull |-> isNull, bytes |-> bytes,
                                  exc |-> exc,
                                  byteArraySize |-> loc[t].byteArraySize,
                                  heap |-> loc[t].heap, zero |-> loc[t].zero]]
    /\ loc' = [loc EXCEPT ![t] = Idle]
    /\ UNCHANGED hist

\* getSortKey, lines 152-155.
getSortKey_scoped(t) ==
    /\ pc[t] = "gsk_scoped"
    /\ \E exc \in ScopedStringChars(loc[t].src.null) :
         IF exc # NoException
         THEN ReturnSortKey(t, TRUE, <<>>, exc)
         ELSE Goto(t, "gsk_first") /\ UNCHANGED <<loc, ret>>
    /\ UNCHANGED <<objs, pins, grefs, eng>>

\* A first encode that tells the encoder the stack buffer has one byte more
\* than it has.
getSortKey_first_overCapacity(t) ==
    /\ pc[t] = "gsk_first"
    /\ \E ok \in BOOLEAN :
         LET r == ucol_getSortKey(loc[t].src.chars, NewBytes(sizeof_byteArray),
                                  sizeof_byteArray + 1, ok) IN
         loc' = [loc EXCEPT ![t].used = r.buf,
                            ![t].byteArraySize = r.size,
                            ![t].capacity = sizeof_byteArray + 1,
                            ![t].zero = ~ok]
    /\ Goto(t, "gsk_retry")
    /\ UNCHANGED <<ret, objs, pins, grefs, eng>>

\* getSortKey, lines 158-161: the encode into the stack buffer, with capacity
\* sizeof(byteArray) - 1.
getSortKey_first(t) ==
    /\ pc[t] = "gsk_first"
    /\ \E ok \in BOOLEAN :
         LET r == ucol_getSortKey(loc[t].src.chars, NewBytes(sizeof_byteArray),
                                  sizeof_byteArray - 1, ok) IN
         loc' = [loc EXCEPT ![t].used = r.buf,
                            ![t].byteArraySize = r.size,
                            ![t].capacity = sizeof_byteArray - 1,
                            ![t].zero = ~ok]
    /\ Goto(t, "gsk_retry")
    /\ UNCHANGED <<ret, objs, pins, grefs, eng>>

\* A retry taken for every key that the first encode did not return whole.
getSortKey_retry_fromCapacity(t) ==
    /\ pc[t] = "gsk_retry"
    /\ IF loc[t].byteArraySize >= sizeof_byteArray - 1
       THEN \E ok \in BOOLEAN :
              LET r == ucol_getSortKey(loc[t].src.chars,
                                       NewBytes(loc[t].byteArraySize + 1),
                                       loc[t].byteArraySize, ok) IN
              loc' = [loc EXCEPT ![t].used = r.buf,
                                 ![t].byteArraySize = r.size,
                                 ![t].capacity = loc[t].byteArraySize,
                                 ![t].heap = TRUE,
                                 ![t].zero = ~ok]
       ELSE UNCHANGED loc
    /\ Goto(t, "gsk_result")
    /\ UNCHANGED <<ret, objs, pins, grefs, eng>>

\* A retry taken only when the key is longer than the whole stack buffer.
getSortKey_retry_offByOne(t) ==
    /\ pc[t] = "gsk_retry"
    /\ IF loc[t].byteArraySize > sizeof_byteArray
       THEN \E ok \in BOOLEAN :
              LET r == ucol_getSortKey(loc[t].src.chars,
                                       NewBytes(loc[t].byteArraySize + 1),
                                       loc[t].byteArraySize, ok) IN
              loc' = [loc EXCEPT ![t].used = r.buf,
                                 ![t].byteArraySize = r.size,
                                 ![t].capacity = loc[t].byteArraySize,
                                 ![t].heap = TRUE,
                                 ![t].zero = ~ok]
       ELSE UNCHANGED loc
    /\ Goto(t, "gsk_result")
    /\ UNCHANGED <<ret, objs, pins, grefs, eng>>

\* getSortKey, lines 162-167: if (byteArraySize > sizeof(byteArray) - 1), encode
\* again into new uint8_t[byteArraySize + 1] with capacity byteArraySize.
getSortKey_retry(t) ==
    /\ pc[t] = "gsk_retry"
    /\ IF loc[t].byteArraySize > sizeof_byteArray - 1
       THEN \E ok \in BOOLEAN :
              LET r == ucol_getSortKey(loc[t].src.chars,
                                       NewBytes(loc[t].byteArraySize + 1),
                                       loc[t].byteArraySize, ok) IN
              loc' = [loc EXCEPT ![t].used = r.buf,
                                 ![t].byteArraySize = r.size,
                                 ![t].capacity = loc[t].byteArraySize,
                                 ![t].heap = TRUE,
                                 ![t].zero = ~ok]
       ELSE UNCHANGED loc
    /\ Goto(t, "gsk_result")
    /\ UNCHANGED <<ret, objs, pins, grefs, eng>>

\* SetByteArrayRegion(result, 0, n, buffer): the first n bytes of the buffer.
CopyOut(buffer, n) ==
    [i \in 1..n |-> IF i <= Len(buffer) THEN buffer[i] ELSE Overread]

\* A result step that takes a key of the terminating byte alone for empty.
getSortKey_result_emptyAtOne(t) ==
    /\ pc[t] = "gsk_result"
    /\ IF loc[t].byteArraySize <= 1
       THEN ReturnSortKey(t, TRUE, <<>>, NoException)
       ELSE ReturnSortKey(t, FALSE, CopyOut(loc[t].used, loc[t].byteArraySize),
                          NoException)
    /\ UNCHANGED <<objs, pins, grefs, eng>>

\* getSortKey, lines 168-173: NULL for byteArraySize == 0, else a new byte
\* array of byteArraySize bytes copied from the buffer used.
getSortKey_result(t) ==
    /\ pc[t] = "gsk_result"
    /\ IF loc[t].byteArraySize = 0
       THEN ReturnSortKey(t, TRUE, <<>>, NoException)
       ELSE ReturnSortKey(t, FALSE, CopyOut(loc[t].used, loc[t].byteArraySize),
                          NoException)
    /\ UNCHANGED <<objs, pins, grefs, eng>>

NextSortKey ==
    \/ NativeCollation_getSortKey(Caller)
    \/ getSortKey_scoped(Caller)
    \/ getSortKey_first(Caller)
    \/ getSortKey_retry(Caller)
    \/ getSortKey_result(Caller)

SpecSortKey == Init /\ [][NextSortKey]_vars

\* The key one encode into a buffer large enough for all of it produces.
DirectEncode(chars) ==
    LET n == Len(SortKeyBytes(chars)) IN
    ucol_getSortKey(chars, NewBytes(n), n, TRUE).buf

\* C7: whenever the engine computes a key of length L >= 1, getSortKey returns
\* exactly L bytes, equal to the key a single encode into a large enough
\* buffer produces, on the stack-buffer path and on the retry path alike.
C7_TwoPhaseEqualsDirectEncode ==
    \A t \in Threads :
        (Returned(t, "getSortKey") /\ ret[t].exc = NoException /\ ~ret[t].zero) =>
            /\ ~ret[t].isNull
            /\ Len(ret[t].bytes) = Len(SortKeyBytes(ret[t].src.chars))
            /\ ret[t].bytes = DirectEncode(ret[t].src.chars)

\* C7's case: a key of exactly the stack buffer's size, returned by the retry.
C7_Witness ==
    \E t \in Threads :
        /\ Returned(t, "getSortKey")
        /\ ret[t].heap
        /\ ~ret[t].isNull
        /\ Len(ret[t].bytes) = sizeof_byteArray

RequiredLength(t) == Len(SortKeyBytes(loc[t].src.chars))

\* C16 as stated: the heap buffer and the second encode are used exactly for
\* a required length above 128, the size of the stack buffer, and the heap
\* buffer has exactly the required length.
C16_RetryAboveBufferSize ==
    \A t \in Threads :
        pc[t] = "gsk_result" =>
            /\ loc[t].heap =>
                  (RequiredLength(t) > sizeof_byteArray
                      /\ Len(loc[t].used) = RequiredLength(t))
            /\ (~loc[t].heap /\ ~loc[t].zero) =>
                  RequiredLength(t) <= sizeof_byteArray

\* C16, amended: the heap buffer and the second encode are used exactly for a
\* required length above 127, the capacity given to the first encode; the heap
\* buffer has the required length plus one byte and is encoded into with the
\* required length as capacity; a key of at most 127 bytes stays in the stack
\* buffer.
C16_RetryAboveFirstCapacity ==
    \A t \in Threads :
        pc[t] = "gsk_result" =>
            /\ loc[t].heap =>
                  /\ RequiredLength(t) > sizeof_byteArray - 1
                  /\ Len(loc[t].used) = RequiredLength(t) + 1
                  /\ loc[t].capacity = RequiredLength(t)
            /\ (~loc[t].heap /\ ~loc[t].zero) =>
                  /\ RequiredLength(t) <= sizeof_byteArray - 1
                  /\ Len(loc[t].used) = sizeof_byteArray

\* C16's case: a key of exactly 128 bytes was encoded again into a heap buffer.
C16_Witness ==
    \E t \in Threads :
        /\ pc[t] = "gsk_result"
        /\ loc[t].heap
        /\ ~loc[t].zero
        /\ RequiredLength(t) = sizeof_byteArray

\* C18: the capacity given to the encoder is never more than the size of the
\* buffer it writes into (127 of 128 bytes of the stack buffer, the required
\* length of the required length plus one of the heap buffer), and the bytes
\* copied into the result are never more than the buffer used holds.
C18_CapacityAndCopyWithinBuffer ==
    \A t \in Threads :
        /\ pc[t] \in {"gsk_retry", "gsk_result"} =>
              /\ loc[t].capacity <= Len(loc[t].used)
              /\ loc[t].heap => loc[t].capacity + 1 = Len(loc[t].used)
              /\ ~loc[t].heap =>
                    (loc[t].capacity = sizeof_byteArray - 1
                        /\ Len(loc[t].used) = sizeof_byteArray)
        /\ pc[t] = "gsk_result" => loc[t].byteArraySize <= Len(loc[t].used)
        /\ (Returned(t, "getSortKey") /\ ~ret[t].isNull) =>
              \A i \in 1..Len(ret[t].bytes) : ret[t].bytes[i] # Overread

\* C18's case: a key longer than the stack buffer, encoded into the heap
\* buffer and about to be copied out.
C18_Witness ==
    \E t \in Threads :
        /\ pc[t] = "gsk_result"
        /\ loc[t].heap
        /\ loc[t].byteArraySize > sizeof_byteArray
        /\ loc[t].capacity = loc[t].byteArraySize

\* UCollationResult: UCOL_LESS, UCOL_EQUAL, UCOL_GREATER.
UCOL_LESS == -1
UCOL_EQUAL == 0
UCOL_GREATER == 1

RECURSIVE LexCompare(_, _)
LexCompare(a, b) ==
    IF a = <<>> /\ b = <<>> THEN UCOL_EQUAL
    ELSE IF a = <<>> THEN UCOL_LESS
    ELSE IF b = <<>> THEN UCOL_GREATER
    ELSE IF Head(a) < Head(b) THEN UCOL_LESS
    ELSE IF Head(a) > Head(b) THEN UCOL_GREATER
    ELSE LexCompare(Tail(a), Tail(b))

\* ucol_strcoll(collator, lhs, lhsLength, rhs, rhsLength).
ucol_strcoll(lhs, rhs) == LexCompare(Weights(lhs), Weights(rhs))

\* compare, line 102.
NativeCollation_compare(t) ==
    /\ \E javaLhs \in CompareSources, javaRhs \in CompareSources :
         Enter(t, "cmp_lhs", [op |-> "compare", lhs |-> javaLhs, rhs |-> javaRhs])
    /\ UNCHANGED <<objs, pins, grefs, eng>>

ReturnCompare(t, val, exc) ==
    /\ pc' = [pc EXCEPT ![t] = "idle"]
    /\ ret' = [ret EXCEPT ![t] = [op |-> "compare", lhs |-> loc[t].lhs,
                                  rhs |-> loc[t].rhs, val |-> val, exc |-> exc]]
    /\ loc' = [loc EXCEPT ![t] = Idle]
    /\ UNCHANGED hist

\* compare, lines 103-106: ScopedStringChars lhs; return 0 if unreadable.
compare_lhs(t) ==
    /\ pc[t] = "cmp_lhs"
    /\ \E exc \in ScopedStringChars(loc[t].lhs.null) :
         IF exc # NoException
         THEN ReturnCompare(t, 0, exc)
         ELSE Goto(t, "cmp_rhs") /\ UNCHANGED <<loc, ret>>
    /\ UNCHANGED <<objs, pins, grefs, eng>>

\* compare, lines 107-110: ScopedStringChars rhs; return 0 if unreadable.
compare_rhs(t) ==
    /\ pc[t] = "cmp_rhs"
    /\ \E exc \in ScopedStringChars(loc[t].rhs.null) :
         IF exc # NoException
         THEN ReturnCompare(t, 0, exc)
         ELSE Goto(t, "cmp_strcoll") /\ UNCHANGED <<loc, ret>>
    /\ UNCHANGED <<objs, pins, grefs, eng>>

\* A compare that hands the two strings to ucol_strcoll in the other order.
compare_strcoll_swapped(t) ==
    /\ pc[t] = "cmp_strcoll"
    /\ ReturnCompare(t, ucol_strcoll(loc[t].rhs.chars, loc[t].lhs.chars), NoException)
    /\ UNCHANGED <<objs, pins, grefs, eng>>

\* compare, line 111: return ucol_strcoll(...).
compare_strcoll(t) ==
    /\ pc[t] = "cmp_strcoll"
    /\ ReturnCompare(t, ucol_strcoll(loc[t].lhs.chars, loc[t].rhs.chars), NoException)
    /\ UNCHANGED <<objs, pins, grefs, eng>>

NextCompare ==
    \/ NativeCollation_compare(Caller)
    \/ compare_lhs(Caller)
    \/ compare_rhs(Caller)
    \/ compare_strcoll(Caller)

SpecCompare == Init /\ [][NextCompare]_vars

\* C10: when compare cannot obtain an ordering (an input string is unreadable)
\* the value it returns is none of LESS, EQUAL, GREATER; in particular it is
\* not EQUAL for two strings the collator orders as unequal.
C10_FailureReturnsNoOrdering ==
    \A t \in Threads :
        (Returned(t, "compare") /\ ret[t].exc # NoException) =>
            ret[t].val \notin {UCOL_LESS, UCOL_EQUAL, UCOL_GREATER}

\* The caller keeps a sort key that getSortKey returned.
Keep(t) ==
    /\ Returned(t, "getSortKey")
    /\ ~ret[t].isNull
    /\ Len(hist.kept) < 2
    /\ hist' = [hist EXCEPT !.kept = Append(@, ret[t])]
    /\ ret' = [ret EXCEPT ![t] = NoRet]
    /\ UNCHANGED <<pc, loc, objs, pins, grefs, eng>>

\* A caller that asks for the sort keys of two strings of the corpus, keeps
\* them, and then compares the same two strings with the same collator.
NextRoundTrip ==
    \/ /\ Len(hist.kept) < 2
       /\ NativeCollation_getSortKey(Caller)
       /\ loc'[Caller].src \in CompareSources
    \/ getSortKey_scoped(Caller)
    \/ getSortKey_first(Caller)
    \/ getSortKey_retry(Caller)
    \/ getSortKey_result(Caller)
    \/ Keep(Caller)
    \/ /\ Len(hist.kept) = 2
       /\ NativeCollation_compare(Caller)
       /\ loc'[Caller].lhs = hist.kept[1].src
       /\ loc'[Caller].rhs = hist.kept[2].src
    \/ compare_lhs(Caller)
    \/ compare_rhs(Caller)
    \/ compare_strcoll(Caller)

SpecRoundTrip == Init /\ [][NextRoundTrip]_vars

=============================================================================
